---------------------------- MODULE Spec2Model ----------------------------
(***************************************************************************)
(* A model of src/functions/main.py: the PDF to EPUB conversion pipeline.  *)
(*                                                                         *)
(* Numbers.  Font sizes are in tenths of a point (the code rounds sizes    *)
(* to one decimal), heading thresholds in hundredths (1.3 is 130) and the  *)
(* reported word ratio in thousandths (the code rounds it to 3 decimals).  *)
(* Comparisons of products of these are made in exact integer arithmetic.  *)
(*                                                                         *)
(* Text.  A text is a sequence of word tokens joined by single spaces.     *)
(* A token is an opaque string with a known length and a known shape for   *)
(* the regular expressions of the heading detector.                        *)
(*                                                                         *)
(* Four specifications share the module:                                   *)
(*   Spec           one invocation of process_epub_conversion              *)
(*   SpecStructure  structure_chapters applied to bounded documents        *)
(*   SpecValidate   validate_epub applied to bounded word counts           *)
(*   SpecAdjust     adjust_params applied repeatedly                       *)
(* A variable a specification does not use stays at Idle.                  *)
(***************************************************************************)
EXTENDS Integers, Sequences, FiniteSets, TLC

VARIABLES
    \* ---- SpecAdjust
    current_params,     \* the caller's Params
    validation_report,  \* the report handed to adjust_params
    adj_arg,            \* the Params as they were when adjust_params was called
    new_params,         \* what adjust_params returned
    adjusts,            \* calls of adjust_params made so far
    from_default,       \* the Params sequence started from the defaults
    \* ---- SpecValidate
    v_in,               \* the inputs of validate_epub
    v_report,           \* the report validate_epub returned
    \* ---- SpecStructure
    s_in,               \* [doc, ocr_results, params] given to the structurer
    s_out,              \* [tier, chapters]: what structure_chapters returned
    \* ---- Spec: one invocation of process_epub_conversion
    pc,                 \* where the invocation stands
    file_path,          \* the name of the finalized object
    source_doc,         \* the PDF behind it: a raw document
    doc_analysis,           \* analyze_pdf's result, total_words updated by OCR
    ocr_map,        \* page number -> OCR text
    loop_params,             \* the Params of the current attempt
    iteration,          \* the loop variable, 1 .. MAX_ITERATIONS
    loop_chapters,           \* the chapters of the current attempt
    epub,               \* what build_epub wrote: [words, chapters, images]
    nav_memo,           \* the navigation words of the EPUBs built so far
    reports,            \* the validation reports so far, in order
    best_result,        \* the report the final update reads
    adjust_calls,       \* calls of adjust_params made by the loop
    job,                \* the status record (no fields when absent)
    writes,             \* every write to the status record, in order
    uploaded,           \* the EPUB is at the output location
    temp_files,         \* the temporary files exist
    fault               \* "" or the exception the handler caught

adjVars ==
    <<current_params, adj_arg, validation_report, new_params, adjusts,
      from_default>>
valVars == <<v_in, v_report>>
strVars == <<s_in, s_out>>
pipeVars ==
    <<pc, file_path, source_doc, doc_analysis, ocr_map, loop_params, iteration,
      loop_chapters, epub, nav_memo, reports, best_result, adjust_calls, job,
      writes, uploaded, temp_files, fault>>
vars == <<adjVars, valVars, strVars, pipeVars>>

\* The value of a variable that holds nothing yet.
Idle == [idle |-> TRUE]

Max(a, b) == IF a >= b THEN a ELSE b
Min(a, b) == IF a <= b THEN a ELSE b

(***************************************************************************)
(* Text, blocks and pages                                                  *)
(***************************************************************************)

\* Python's range(a, b) as a sequence.
Range(a, b) == [i \in 1 .. Max(0, b - a) |-> a + i - 1]

RECURSIVE SumSeq(_)
SumSeq(s) == IF s = <<>> THEN 0 ELSE Head(s) + SumSeq(Tail(s))

RECURSIVE Flatten(_)
Flatten(ss) == IF ss = <<>> THEN <<>> ELSE Head(ss) \o Flatten(Tail(ss))

\* The word tokens of the model, with the number of characters of each.
Tokens == {"Capitulo", "1.", "7", "IV", "foo"}

TokenLen(t) ==
    CASE t = "Capitulo" -> 8
      [] t = "1." -> 2
      [] t = "7" -> 1
      [] t = "IV" -> 2
      [] OTHER -> 3

\* What the heading detector's regular expressions see of a token.
TokenShape(t) ==
    CASE t = "Capitulo" -> "keyword"
      [] t = "1." -> "digits_punct"
      [] t = "7" -> "digits"
      [] t = "IV" -> "roman"
      [] OTHER -> "plain"

\* len(text.split())
WordCount(text) == Len(text)

\* len(text): the tokens and the single spaces between them.
CharCount(text) ==
    IF text = <<>> THEN 0
    ELSE SumSeq([i \in 1 .. Len(text) |-> TokenLen(text[i])]) + Len(text) - 1

\* re.match(r'^(cap[íi]tulo|chapter|parte|part|secci[oó]n|section)\s', ...):
\* a keyword, then white space, so a second word follows.
MatchesKeyword(text) ==
    Len(text) >= 2 /\ TokenShape(text[1]) = "keyword"

\* re.match(r'^\d+[\.\)\-\s]', text): digits, then a mark or white space.
MatchesDecimal(text) ==
    /\ text # <<>>
    /\ \/ TokenShape(text[1]) = "digits_punct"
       \/ TokenShape(text[1]) = "digits" /\ Len(text) >= 2

\* re.match(r'^[IVXLCDM]+[\.\)\-\s]', text)
MatchesRoman(text) ==
    /\ text # <<>>
    /\ \/ TokenShape(text[1]) = "roman_punct"
       \/ TokenShape(text[1]) = "roman" /\ Len(text) >= 2

(***************************************************************************)
(* analyze_pdf                                                             *)
(*                                                                         *)
(* A raw document is [pages, toc]: each raw page is [blocks, has_images],  *)
(* each block [text, size, bold], each outline entry [level, title, page]  *)
(* with a 1-indexed page.                                                  *)
(***************************************************************************)

PageWordCount(rawpage) ==
    SumSeq([i \in 1 .. Len(rawpage.blocks) |-> WordCount(rawpage.blocks[i].text)])

\* is_scanned = page_has_images and page_word_count < 10
IsScanned(rawpage) == rawpage.has_images /\ PageWordCount(rawpage) < 10

\* Counter(font_sizes).most_common(1)[0][0]: the most frequent size, the one
\* met first among equally frequent ones; 12.0 when there is no text.
BodyFontSize(rawpages) ==
    LET sizes == Flatten([i \in 1 .. Len(rawpages) |->
                    [j \in 1 .. Len(rawpages[i].blocks) |->
                        rawpages[i].blocks[j].size]])
        Count(z) == Cardinality({i \in 1 .. Len(sizes) : sizes[i] = z})
        First(z) == CHOOSE i \in 1 .. Len(sizes) :
                        sizes[i] = z /\ \A j \in 1 .. i - 1 : sizes[j] # z
        best == CHOOSE i \in 1 .. Len(sizes) :
                    /\ First(sizes[i]) = i
                    /\ \A j \in 1 .. Len(sizes) :
                        \/ Count(sizes[j]) < Count(sizes[i])
                        \/ /\ Count(sizes[j]) = Count(sizes[i])
                           /\ First(sizes[j]) >= i
    IN  IF sizes = <<>> THEN 120 ELSE sizes[best]

analyze_pdf(doc) ==
    LET n == Len(doc.pages)
        pages == [i \in 1 .. n |->
                    [page_num |-> i - 1,
                     blocks |-> doc.pages[i].blocks,
                     word_count |-> PageWordCount(doc.pages[i]),
                     is_scanned |-> IsScanned(doc.pages[i]),
                     images |-> IF doc.pages[i].has_images THEN 1 ELSE 0]]
    IN  [pages |-> pages,
         body_font_size |-> BodyFontSize(doc.pages),
         toc |-> doc.toc,
         scanned_pages |-> SelectSeq(Range(0, n), LAMBDA k : pages[k + 1].is_scanned),
         total_words |-> SumSeq([i \in 1 .. n |-> pages[i].word_count]),
         total_pages |-> n]

(***************************************************************************)
(* structure_chapters and _build_chapter_content                           *)
(***************************************************************************)

\* An OCR text is a sequence of paragraphs (the parts between blank lines),
\* each a text; ocr_results maps page numbers to OCR texts, <<>> being "".
OcrWordCount(ocr_text) ==
    SumSeq([i \in 1 .. Len(ocr_text) |-> WordCount(ocr_text[i])])

\* The markup of one page in a chapter: a sequence of [tag, text] elements.
\* A scanned page that has an entry in ocr_results is rendered from that
\* entry alone, its non-empty paragraphs; any other page from its blocks.
PageMarkup(page_data, ocr_results, body_size) ==
    IF page_data.is_scanned /\ page_data.page_num \in DOMAIN ocr_results
    THEN LET ocr_text == ocr_results[page_data.page_num]
             kept == SelectSeq(ocr_text, LAMBDA para : para # <<>>)
         IN  [i \in 1 .. Len(kept) |-> [tag |-> "p", text |-> kept[i]]]
    ELSE [i \in 1 .. Len(page_data.blocks) |->
            LET block == page_data.blocks[i] IN
            [tag |-> IF 10 * block.size >= 15 * body_size THEN "h2"
                     ELSE IF 10 * block.size >= 12 * body_size THEN "h3"
                     ELSE IF block.bold THEN "strong"
                     ELSE "p",
             text |-> block.text]]

\* content_html, word_count and images of every chapter.
_build_chapter_content(chapters, pages, ocr_results, analysis) ==
    [c \in 1 .. Len(chapters) |->
        LET inside == SelectSeq(chapters[c].pages, LAMBDA k : k < Len(pages))
            html == Flatten([i \in 1 .. Len(inside) |->
                        PageMarkup(pages[inside[i] + 1], ocr_results,
                                   analysis.body_font_size)])
        IN  [title |-> chapters[c].title,
             pages |-> chapters[c].pages,
             content_html |-> html,
             word_count |-> SumSeq([i \in 1 .. Len(html) |-> WordCount(html[i].text)]),
             images |-> SumSeq([i \in 1 .. Len(inside) |-> pages[inside[i] + 1].images])]]

\* Strategy 1: the boundaries kept from the outline, in the outline's order.
ChapterBoundaries(toc) ==
    LET kept == SelectSeq(toc, LAMBDA e : e.level <= 2)
    IN  [i \in 1 .. Len(kept) |->
            [title |-> kept[i].title, start_page |-> kept[i].page - 1]]

\* The chapters of a list of boundaries [title, start_page]: each runs to
\* the next boundary's page, the last to the end, cut to the document; the
\* empty ones are left out.
ChaptersOf(boundaries, total) ==
    LET spans == [i \in 1 .. Len(boundaries) |->
                    [title |-> boundaries[i].title,
                     pages |-> Range(Max(0, boundaries[i].start_page),
                                     Min(IF i + 1 <= Len(boundaries)
                                         THEN boundaries[i + 1].start_page
                                         ELSE total, total))]]
    IN  SelectSeq(spans, LAMBDA ch : ch.pages # <<>>)

\* "Portada": the pages before the first chapter, as a chapter put first.
WithFrontMatter(chapters) ==
    IF chapters[1].pages[1] > 0
    THEN <<[title |-> <<"Portada">>, pages |-> Range(0, chapters[1].pages[1])]>>
         \o chapters
    ELSE chapters

\* Whether strategy 1 is the one that returns.
UsesOutline(analysis) ==
    /\ Len(analysis.toc) >= 2
    /\ ChapterBoundaries(analysis.toc) # <<>>
    /\ ChaptersOf(ChapterBoundaries(analysis.toc), Len(analysis.pages)) # <<>>

\* Strategy 2, the test on a block's shape (lines 244-247).
HeadingShaped(block, body_size, heading_threshold) ==
    /\ 100 * block.size >= body_size * heading_threshold
    /\ block.bold
    /\ WordCount(block.text) <= 12
    /\ CharCount(block.text) > 2

\* is_chapter_like (lines 251-256).
is_chapter_like(block, body_size) ==
    \/ MatchesKeyword(block.text)
    \/ MatchesDecimal(block.text)
    \/ MatchesRoman(block.text)
    \/ 10 * block.size >= 15 * body_size

\* The test of line 258, for a block that passed HeadingShaped.
HeadingAccepted(block, body_size, heading_threshold) ==
    \/ is_chapter_like(block, body_size)
    \/ 100 * block.size >= body_size * heading_threshold

\* detected_headings: in page order, then block order; scanned pages skipped.
DetectedHeadings(analysis, heading_threshold) ==
    LET body_size == analysis.body_font_size
        OfPage(page_data) ==
            IF page_data.is_scanned THEN <<>>
            ELSE LET hs == SelectSeq(page_data.blocks, LAMBDA b :
                              /\ HeadingShaped(b, body_size, heading_threshold)
                              /\ HeadingAccepted(b, body_size, heading_threshold))
                 IN  [i \in 1 .. Len(hs) |->
                        [title |-> hs[i].text, page |-> page_data.page_num,
                         size |-> hs[i].size]]
    IN  Flatten([i \in 1 .. Len(analysis.pages) |-> OfPage(analysis.pages[i])])

\* seen_pages, sorted by page: of the headings of one page, the first of
\* the largest size.
SortedHeadings(detected) ==
    LET Kept(i) == /\ \A j \in 1 .. i - 1 :
                        detected[j].page = detected[i].page
                            => detected[j].size < detected[i].size
                   /\ \A j \in i + 1 .. Len(detected) :
                        detected[j].page = detected[i].page
                            => detected[j].size <= detected[i].size
        idx == SelectSeq([i \in 1 .. Len(detected) |-> i], Kept)
    IN  [i \in 1 .. Len(idx) |-> detected[idx[i]]]

\* Whether strategy 2 is the one that returns, strategy 1 having not.
UsesHeadings(analysis, params) ==
    Len(DetectedHeadings(analysis, params.heading_threshold)) >= 2

\* Strategy 3: chunks of chunk_size pages, "Seccion N".
PageChunks(total, chunk_size) ==
    [i \in 1 .. (total + chunk_size - 1) \div chunk_size |->
        [title |-> <<"Seccion", ToString(i)>>,
         pages |-> Range((i - 1) * chunk_size, Min(i * chunk_size, total))]]

\* An order of strategies that tries the headings before the outline.
TierOf_HeadingsFirst(analysis, params) ==
    IF UsesHeadings(analysis, params) THEN 2
    ELSE IF UsesOutline(analysis) THEN 1
    ELSE 3

\* The strategy structure_chapters returns from: 1, 2 or 3.
TierOf(analysis, params) ==
    IF UsesOutline(analysis) THEN 1
    ELSE IF UsesHeadings(analysis, params) THEN 2
    ELSE 3

structure_chapters(analysis, ocr_results, params) ==
    LET pages == analysis.pages
        tier == TierOf(analysis, params)
        sorted == SortedHeadings(
                      DetectedHeadings(analysis, params.heading_threshold))
        chapters ==
            CASE tier = 1 ->
                    WithFrontMatter(ChaptersOf(ChapterBoundaries(analysis.toc),
                                               Len(pages)))
              [] tier = 2 ->
                    WithFrontMatter(ChaptersOf(
                        [i \in 1 .. Len(sorted) |->
                            [title |-> sorted[i].title,
                             start_page |-> sorted[i].page]], Len(pages)))
              [] OTHER -> PageChunks(Len(pages), params.chunk_size)
    IN  _build_chapter_content(chapters, pages, ocr_results, analysis)

(***************************************************************************)
(* Params and adjust_params                                                *)
(***************************************************************************)

\* The Params the orchestrator starts every invocation with.
DefaultParams ==
    [heading_threshold |-> 130, chunk_size |-> 15, min_chapter_words |-> 100]

\* report.get("failure_mode", "minor")
FailureOf(report) ==
    IF "failure_mode" \in DOMAIN report THEN report.failure_mode ELSE "minor"

adjust_params_NoCeiling(params, report) ==
    LET failure == FailureOf(report) IN
    IF failure = "severe_word_loss" THEN
        [heading_threshold |-> Max(110, params.heading_threshold - 15),
         chunk_size        |-> params.chunk_size + 10,
         min_chapter_words |-> Max(25, params.min_chapter_words - 50)]
    ELSE IF failure = "moderate_word_loss" THEN
        [heading_threshold |-> Max(110, params.heading_threshold - 10),
         chunk_size        |-> params.chunk_size + 5,
         min_chapter_words |-> Max(50, params.min_chapter_words - 25)]
    ELSE params

\* adjust_params returns a copy of the Params, changed for the two failure
\* modes it knows; the Params it was given are left as they were.
adjust_params(params, report) ==
    LET failure == FailureOf(report) IN
    IF failure = "severe_word_loss" THEN
        [heading_threshold |-> Max(110, params.heading_threshold - 15),
         chunk_size        |-> Min(30, params.chunk_size + 10),
         min_chapter_words |-> Max(25, params.min_chapter_words - 50)]
    ELSE IF failure = "moderate_word_loss" THEN
        [heading_threshold |-> Max(110, params.heading_threshold - 10),
         chunk_size        |-> Min(25, params.chunk_size + 5),
         min_chapter_words |-> Max(50, params.min_chapter_words - 25)]
    ELSE params

(***************************************************************************)
(* validate_epub                                                           *)
(***************************************************************************)

\* round(word_ratio, 3) of the ratio num/den, in thousandths.  On an exact
\* tie the float that holds the ratio lies a little above or a little below
\* the tie, so either neighbour may be the result.
Round3(num, den) ==
    LET n == 1000 * num
        q == n \div den
        r == n % den
    IN  IF 2 * r < den THEN {q}
        ELSE IF 2 * r > den THEN {q + 1}
        ELSE {q, q + 1}

\* The report of an EPUB that could not be read back.
ReadbackFailureReport(chapters_expected, images_expected) ==
    [passed |-> FALSE, error |-> "Could not read EPUB for validation",
     word_ratio |-> 0, chapters |-> chapters_expected,
     images |-> images_expected]

\* A test that would demand more than 0.90.
RatioPasses_Strict(num, den) == 10 * num > 9 * den

\* Whether the ratio num/den is at least 0.90.
RatioPasses(num, den) == 10 * num >= 9 * den

\* The report of an EPUB that was read back, the ratio being num/den before
\* rounding and wr thousandths after it; counts holds the four counts the
\* report repeats.
ScoredReport(num, den, wr, counts) ==
    LET passed == RatioPasses(num, den)
        base == [passed |-> passed, word_ratio |-> wr,
                 source_words |-> counts.source_words,
                 epub_words |-> counts.epub_words,
                 chapters |-> counts.chapters,
                 images |-> counts.images,
                 empty_chapters |-> FALSE]
    IN  IF passed THEN base
        ELSE IF 2 * num < den
             THEN base @@ [failure_mode |-> "severe_word_loss"]
        ELSE IF 10 * num < 9 * den
             THEN base @@ [failure_mode |-> "moderate_word_loss"]
        ELSE base @@ [failure_mode |-> "minor"]

\* The reports validate_epub may return: one, except on a rounding tie.
\* readable is whether epub.read_epub and the word count went through;
\* counts is [source_words, epub_words, chapters, images].
validate_epub(readable, counts) ==
    IF ~readable
    THEN {ReadbackFailureReport(counts.chapters, counts.images)}
    ELSE LET num == IF counts.source_words > 0
                    THEN Min(counts.epub_words, counts.source_words)
                    ELSE 1
             den == IF counts.source_words > 0 THEN counts.source_words
                    ELSE IF counts.epub_words = 0 THEN 1 ELSE 2
         IN  {ScoredReport(num, den, wr, counts) : wr \in Round3(num, den)}

(***************************************************************************)
(* SpecAdjust: adjust_params called again and again, as the orchestrator   *)
(* calls it (params = adjust_params(params, report)).                      *)
(***************************************************************************)

MaxAdjusts == 3

ThresholdSet == {110, 115, 120, 130, 150}
ChunkSet == {1, 15, 20, 25, 30}
MinWordsSet == {0, 25, 50, 75, 100}
ParamSet ==
    [heading_threshold : ThresholdSet, chunk_size : ChunkSet,
     min_chapter_words : MinWordsSet]

\* The reports adjust_params is tried on: every failure mode, one it does
\* not know, and a report that carries none.
AdjustReports ==
    {[passed |-> FALSE, failure_mode |-> f] :
        f \in {"severe_word_loss", "moderate_word_loss", "minor", "none",
               "unrecognized"}}
    \cup {[passed |-> FALSE]}

\* What the caller's Params object holds after the call: adjust_params
\* works on a copy, so what it was given.
adjust_params_input_Aliased(params, report) == adjust_params(params, report)

adjust_params_input(params, report) == params

ValIdle == v_in = Idle /\ v_report = Idle
StrIdle == s_in = Idle /\ s_out = Idle
PipeIdle ==
    /\ pc = "idle" /\ file_path = <<>> /\ source_doc = Idle /\ doc_analysis = Idle
    /\ ocr_map = <<>> /\ loop_params = Idle /\ iteration = 0 /\ loop_chapters = <<>>
    /\ epub = Idle /\ nav_memo = <<>> /\ reports = <<>> /\ best_result = Idle
    /\ adjust_calls = 0 /\ job = <<>> /\ writes = <<>> /\ uploaded = FALSE
    /\ temp_files = FALSE /\ fault = ""
AdjIdle ==
    /\ current_params = Idle /\ adj_arg = Idle /\ validation_report = Idle
    /\ new_params = Idle /\ adjusts = 0 /\ from_default = FALSE

InitAdjust ==
    /\ current_params \in ParamSet
    /\ adj_arg = Idle
    /\ validation_report = Idle
    /\ new_params = Idle
    /\ adjusts = 0
    /\ from_default = (current_params = DefaultParams)
    /\ ValIdle
    /\ StrIdle
    /\ PipeIdle

\* new_params = adjust_params(current_params, report)
CallAdjust ==
    /\ new_params = Idle
    /\ adjusts < MaxAdjusts
    /\ \E report \in AdjustReports :
        /\ adj_arg' = current_params
        /\ validation_report' = report
        /\ new_params' = adjust_params(current_params, report)
        /\ current_params' = adjust_params_input(current_params, report)
    /\ adjusts' = adjusts + 1
    /\ UNCHANGED <<from_default, valVars, strVars, pipeVars>>

\* params = new_params: the result is the Params of the next call.
AssignAdjusted ==
    /\ new_params # Idle
    /\ current_params' = new_params
    /\ new_params' = Idle
    /\ adj_arg' = Idle
    /\ validation_report' = Idle
    /\ UNCHANGED <<adjusts, from_default, valVars, strVars, pipeVars>>

NextAdjust == CallAdjust \/ AssignAdjusted

SpecAdjust == InitAdjust /\ [][NextAdjust]_vars

(***************************************************************************)
(* SpecValidate: validate_epub on bounded word counts.                     *)
(***************************************************************************)

MaxWords == 12

SourceWordsSet == 0 .. MaxWords \cup {1000, 10000}
RenderedWordsSet == 0 .. (MaxWords + 2) \cup {850, 8996, 9000}

InitValidate ==
    /\ v_in \in [readable : BOOLEAN, source_words : SourceWordsSet,
                 epub_words : RenderedWordsSet, chapters : {1},
                 images : {0, 1}]
    /\ v_report = Idle
    /\ AdjIdle
    /\ StrIdle
    /\ PipeIdle

Validate ==
    /\ v_report = Idle
    /\ v_report' \in validate_epub(v_in.readable, v_in)
    /\ UNCHANGED <<v_in, adjVars, strVars, pipeVars>>

NextValidate == Validate

SpecValidate == InitValidate /\ [][NextValidate]_vars

(***************************************************************************)
(* ocr_scanned_pages                                                       *)
(***************************************************************************)

\* The texts the recognizer may give for a page: nothing, or some words.
OcrTexts == {<<>>, << <<"foo", "foo", "foo">> >>}

\* The ocr_results ocr_scanned_pages may return for the scanned pages: {}
\* when there are none or the vision client is unavailable, else an entry
\* for every scanned page, "" for a page whose call failed or found nothing.
ocr_scanned_pages(scanned_indices) ==
    LET scanned == {scanned_indices[i] : i \in 1 .. Len(scanned_indices)}
    IN  IF scanned = {} THEN {<<>>}
        ELSE {<<>>} \cup [scanned -> OcrTexts]

(***************************************************************************)
(* SpecStructure: structure_chapters on bounded documents.                 *)
(***************************************************************************)

MaxPages == 3
MaxRichPages == 2
MaxToc == 3

RECURSIVE SeqsUpTo(_, _)
\* The sequences over S of length at most n.
SeqsUpTo(S, n) ==
    IF n = 0 THEN {<<>>}
    ELSE LET shorter == SeqsUpTo(S, n - 1)
         IN  shorter \cup {Append(q, x) : q \in {r \in shorter : Len(r) = n - 1}, x \in S}

Words(tok, n) == [i \in 1 .. n |-> tok]

\* Body text: 13 words at the body size.
BodyBlock == [text |-> Words("foo", 13), size |-> 100, bold |-> FALSE]
\* A few words at the body size.
ShortBlock == [text |-> <<"foo", "foo">>, size |-> 100, bold |-> FALSE]

\* Blocks that are, or just fail to be, headings.
HeadingBlocks ==
    {[text |-> <<"Capitulo", "foo">>, size |-> 130, bold |-> TRUE],
     [text |-> <<"foo", "foo">>, size |-> 130, bold |-> TRUE],
     [text |-> <<"foo", "foo">>, size |-> 150, bold |-> TRUE],
     [text |-> <<"7", "foo">>, size |-> 120, bold |-> TRUE],
     [text |-> <<"IV", "foo">>, size |-> 130, bold |-> FALSE],
     [text |-> <<"Capitulo">> \o Words("foo", 12), size |-> 130, bold |-> TRUE],
     [text |-> <<"1.">>, size |-> 130, bold |-> TRUE]}

\* Pages with up to two heading-like blocks, after body text or without it,
\* and pages that are scans.
RichPageSet ==
    {[blocks |-> pre \o hs, has_images |-> FALSE] :
        pre \in {<<>>, <<BodyBlock>>}, hs \in SeqsUpTo(HeadingBlocks, 2)}
    \cup {[blocks |-> b, has_images |-> TRUE] : b \in {<<>>, <<ShortBlock>>}}

\* Pages of body text, with or without one heading.
SimplePageSet ==
    {[blocks |-> <<BodyBlock>>, has_images |-> FALSE],
     [blocks |-> <<BodyBlock, [text |-> <<"Capitulo", "foo">>, size |-> 150,
                               bold |-> TRUE]>>, has_images |-> FALSE]}

\* Outline entries: levels 2 (kept) and 3 (dropped), pages 0 .. MaxPages,
\* 0 and pages past the end of a shorter document included.
TocEntries ==
    [level : {2, 3}, title : {<<"foo">>}, page : 0 .. MaxPages]

\* Documents with any outline and simple pages, and documents with rich
\* pages and no outline; every document has at least one page.
StructureDocs ==
    [pages : SeqsUpTo(SimplePageSet, MaxPages) \ {<<>>},
     toc : SeqsUpTo(TocEntries, MaxToc)]
    \cup [pages : SeqsUpTo(RichPageSet, MaxRichPages) \ {<<>>}, toc : {<<>>}]

StructureParams ==
    [heading_threshold : {120, 130}, chunk_size : {1, 2},
     min_chapter_words : {100}]

InitStructure ==
    /\ \E doc \in StructureDocs, params \in StructureParams :
        \E ocr \in ocr_scanned_pages(analyze_pdf(doc).scanned_pages) :
            s_in = [doc |-> doc, ocr_results |-> ocr, params |-> params]
    /\ s_out = Idle
    /\ AdjIdle
    /\ ValIdle
    /\ PipeIdle

\* chapters = structure_chapters(analysis, ocr_results, params)
StructureChapters ==
    /\ s_out = Idle
    /\ LET analysis == analyze_pdf(s_in.doc) IN
        s_out' = [tier |-> TierOf(analysis, s_in.params),
                  detected_headings |->
                      IF UsesOutline(analysis) THEN <<>>
                      ELSE DetectedHeadings(analysis,
                                            s_in.params.heading_threshold),
                  chapters |-> structure_chapters(analysis, s_in.ocr_results,
                                                  s_in.params)]
    /\ UNCHANGED <<s_in, adjVars, valVars, pipeVars>>

NextStructure == StructureChapters

SpecStructure == InitStructure /\ [][NextStructure]_vars

(***************************************************************************)
(* Spec: one invocation of process_epub_conversion.                        *)
(*                                                                         *)
(* The steps that may raise are the download, opening and analysing the    *)
(* PDF, build_epub and the upload; a failed upload leaves nothing at the   *)
(* output location.  The status record takes every write it is sent, and   *)
(* the host does not end the invocation before it returns.                 *)
(***************************************************************************)

MaxNavWords == 2

MAX_ITERATIONS_Four == 3 + 1

MAX_ITERATIONS == 3

\* A path is a sequence of parts; its first part is what startswith sees,
\* its last what endswith sees.
Paths ==
    {<<"pdf_uploads/", "job1", ".pdf">>, <<"pdf_uploads/", "job1", ".txt">>,
     <<"other/", "job1", ".pdf">>, <<"epub_conversions/", "job1", ".epub">>,
     <<"pdf_uploads/", ".pdf">>}

Accepted_PrefixOnly(path) == path[1] = "pdf_uploads/"

\* not (not startswith("pdf_uploads/") or not endswith(".pdf"))
Accepted(path) ==
    path[1] = "pdf_uploads/" /\ path[Len(path)] = ".pdf"

\* pathlib.Path(file_path).stem: the name without its suffix; a name that
\* is nothing but ".pdf" has no suffix.
JobId(path) == IF Len(path) >= 3 THEN path[Len(path) - 1] ELSE path[Len(path)]

\* A scanned page: an image and 9 words of text.
ScanPage ==
    [blocks |-> <<[text |-> Words("foo", 9), size |-> 100, bold |-> FALSE]>>,
     has_images |-> TRUE]
BodyPage == [blocks |-> <<BodyBlock>>, has_images |-> FALSE]
\* Body text and a bold "7 foo" of the given size.
HeadPage(size) ==
    [blocks |-> <<BodyBlock, [text |-> <<"7", "foo">>, size |-> size,
                              bold |-> TRUE]>>,
     has_images |-> FALSE]

\* The documents an invocation is run on.
PipelineDocs ==
    {[pages |-> <<BodyPage>>, toc |-> <<>>],
     [pages |-> <<ScanPage>>, toc |-> <<>>],
     [pages |-> <<ScanPage, ScanPage>>, toc |-> <<>>],
     [pages |-> <<HeadPage(120), HeadPage(120), ScanPage>>, toc |-> <<>>],
     [pages |-> <<HeadPage(110), HeadPage(110), ScanPage>>, toc |-> <<>>],
     [pages |-> <<BodyPage, ScanPage>>,
      toc |-> <<[level |-> 1, title |-> <<"foo">>, page |-> 1],
                [level |-> 2, title |-> <<"foo">>, page |-> 2]>>],
     [pages |-> <<HeadPage(120), HeadPage(120), ScanPage>>,
      toc |-> <<[level |-> 1, title |-> <<"foo">>, page |-> 1],
                [level |-> 2, title |-> <<"foo">>, page |-> 2]>>]}

\* The titles of a list of chapters.
Titles(chaps) == [c \in 1 .. Len(chaps) |-> chaps[c].title]

\* The words validate_epub counts in an EPUB that build_epub wrote: per
\* chapter document its title twice (<title> and <h1>) and its content,
\* and nav words for the navigation document the library adds.
EpubWordCount(chaps, nav) ==
    SumSeq([c \in 1 .. Len(chaps) |->
                2 * WordCount(chaps[c].title) + chaps[c].word_count]) + nav

\* The navigation document is made from the chapter titles: the same titles
\* give the same words, other titles any number up to MaxNavWords.
NavChoices(titles, memo) ==
    IF \E i \in 1 .. Len(memo) : memo[i].titles = titles
    THEN {memo[i].nav : i \in {j \in 1 .. Len(memo) : memo[j].titles = titles}}
    ELSE 0 .. MaxNavWords

\* A base that forgets the progress made before the loop.
ProgressBase_FromZero(it) == (it - 1) * 15

\* progress_base = 35 + (iteration - 1) * 15
ProgressBase(it) == 35 + (it - 1) * 15

\* The words OCR adds to total_words.
OcrWordsAdded(results) ==
    LET ps == DOMAIN results
        RECURSIVE Sum(_)
        Sum(S) == IF S = {} THEN 0
                  ELSE LET x == CHOOSE y \in S : TRUE
                       IN  OcrWordCount(results[x]) + Sum(S \ {x})
    IN  Sum(ps)

\* The keys of best_result the final update reads.
FinalKeys ==
    {"word_ratio", "source_words", "epub_words", "chapters", "images", "passed"}

Init ==
    /\ pc = "start"
    /\ file_path \in Paths
    /\ source_doc \in PipelineDocs
    /\ doc_analysis = Idle
    /\ ocr_map = <<>>
    /\ loop_params = Idle
    /\ iteration = 0
    /\ loop_chapters = <<>>
    /\ epub = Idle
    /\ nav_memo = <<>>
    /\ reports = <<>>
    /\ best_result = Idle
    /\ adjust_calls = 0
    /\ job = <<>>
    /\ writes = <<>>
    /\ uploaded = FALSE
    /\ temp_files = FALSE
    /\ fault = ""
    /\ AdjIdle
    /\ ValIdle
    /\ StrIdle

otherVars == <<adjVars, valVars, strVars>>

\* job_ref.set(..., merge=True) and job_ref.update(...): the fields written
\* replace the record's, the others stay.
Written(update) ==
    /\ job' = update @@ job
    /\ writes' = Append(writes, update)

\* An exception reaches the handler of line 732.
Raise(what) ==
    /\ fault' = what
    /\ pc' = "except"

\* Lines 592-601: the path filter, then the record is set to processing.
Receive ==
    /\ pc = "start"
    /\ IF Accepted(file_path)
       THEN /\ Written([status |-> "processing", progress |-> 5])
            /\ pc' = "download"
       ELSE /\ pc' = "ignored"
            /\ UNCHANGED <<job, writes>>
    /\ UNCHANGED <<file_path, source_doc, doc_analysis, ocr_map, loop_params,
                   iteration, loop_chapters, epub, nav_memo, reports, best_result,
                   adjust_calls, uploaded, temp_files, fault, otherVars>>

\* Lines 611-618: the temporary files, the download.
Download ==
    /\ pc = "download"
    /\ temp_files' = TRUE
    /\ \/ /\ Written([progress |-> 10])
          /\ pc' = "analyze"
          /\ UNCHANGED fault
       \/ /\ Raise("download failed")
          /\ UNCHANGED <<job, writes>>
    /\ UNCHANGED <<file_path, source_doc, doc_analysis, ocr_map, loop_params,
                   iteration, loop_chapters, epub, nav_memo, reports, best_result,
                   adjust_calls, uploaded, otherVars>>

\* Lines 620-630: fitz.open and analyze_pdf.
Analyze ==
    /\ pc = "analyze"
    /\ \/ /\ doc_analysis' = analyze_pdf(source_doc)
          /\ Written([progress |-> 20])
          /\ pc' = "ocr"
          /\ UNCHANGED fault
       \/ /\ Raise("cannot open PDF")
          /\ UNCHANGED <<doc_analysis, job, writes>>
    /\ UNCHANGED <<file_path, source_doc, ocr_map, loop_params, iteration,
                   loop_chapters, epub, nav_memo, reports, best_result,
                   adjust_calls, uploaded, temp_files, otherVars>>

\* Lines 633-655: OCR of the scanned pages, its words added to total_words,
\* then the Params of the first attempt.
Ocr ==
    /\ pc = "ocr"
    /\ IF doc_analysis.scanned_pages # <<>>
       THEN \E results \in ocr_scanned_pages(doc_analysis.scanned_pages) :
                /\ ocr_map' = results
                /\ doc_analysis' = [doc_analysis EXCEPT !.total_words =
                                    @ + OcrWordsAdded(results)]
                /\ job' = [progress |-> 35] @@ job
                /\ writes' = writes \o <<[progress |-> 25, status |-> "processing"],
                                         [progress |-> 35]>>
       ELSE /\ Written([progress |-> 35])
            /\ UNCHANGED <<ocr_map, doc_analysis>>
    /\ loop_params' = DefaultParams
    /\ iteration' = 1
    /\ pc' = "structure"
    /\ UNCHANGED <<file_path, source_doc, loop_chapters, epub, nav_memo, reports,
                   best_result, adjust_calls, uploaded, temp_files, fault,
                   otherVars>>

\* Lines 663-667: stage 3 of an attempt.
Structure ==
    /\ pc = "structure"
    /\ loop_chapters' = structure_chapters(doc_analysis, ocr_map, loop_params)
    /\ Written([progress |-> Min(ProgressBase(iteration) + 10, 85)])
    /\ pc' = "build"
    /\ UNCHANGED <<file_path, source_doc, doc_analysis, ocr_map, loop_params,
                   iteration, epub, nav_memo, reports, best_result,
                   adjust_calls, uploaded, temp_files, fault, otherVars>>

\* Lines 671-682: stage 4 of an attempt, build_epub.
Build ==
    /\ pc = "build"
    /\ \/ \E nav \in NavChoices(Titles(loop_chapters), nav_memo) :
            /\ epub' = [words |-> EpubWordCount(loop_chapters, nav),
                        chapters |-> Len(loop_chapters),
                        images |-> SumSeq([c \in 1 .. Len(loop_chapters) |->
                                              loop_chapters[c].images])]
            /\ nav_memo' = Append(nav_memo, [titles |-> Titles(loop_chapters),
                                             nav |-> nav])
            /\ Written([progress |-> Min(ProgressBase(iteration) + 15, 90)])
            /\ pc' = "validate"
            /\ UNCHANGED fault
       \/ /\ Raise("EPUB write failed")
          /\ UNCHANGED <<epub, nav_memo, job, writes>>
    /\ UNCHANGED <<file_path, source_doc, doc_analysis, ocr_map, loop_params,
                   iteration, loop_chapters, reports, best_result, adjust_calls,
                   uploaded, temp_files, otherVars>>

\* Lines 686-702: stage 5 of an attempt and the loop's decision.
Validate_Attempt ==
    /\ pc = "validate"
    /\ \E readable \in BOOLEAN :
        \E report \in validate_epub(readable,
                        [source_words |-> doc_analysis.total_words,
                         epub_words |-> epub.words,
                         chapters |-> epub.chapters,
                         images |-> epub.images]) :
            /\ reports' = Append(reports, report)
            /\ best_result' = report
            /\ IF report.passed
               THEN /\ pc' = "upload"
                    /\ UNCHANGED <<loop_params, iteration, adjust_calls>>
               ELSE IF iteration < MAX_ITERATIONS
               THEN /\ loop_params' = adjust_params(loop_params, report)
                    /\ adjust_calls' = adjust_calls + 1
                    /\ iteration' = iteration + 1
                    /\ pc' = "structure"
               ELSE /\ pc' = "upload"
                    /\ UNCHANGED <<loop_params, iteration, adjust_calls>>
    /\ UNCHANGED <<file_path, source_doc, doc_analysis, ocr_map, loop_chapters,
                   epub, nav_memo, job, writes, uploaded, temp_files, fault,
                   otherVars>>

\* Lines 704-710: the upload of the EPUB.
Upload ==
    /\ pc = "upload"
    /\ \/ /\ uploaded' = TRUE
          /\ pc' = "final"
          /\ UNCHANGED fault
       \/ /\ Raise("upload failed")
          /\ UNCHANGED uploaded
    /\ UNCHANGED <<file_path, source_doc, doc_analysis, ocr_map, loop_params,
                   iteration, loop_chapters, epub, nav_memo, reports, best_result,
                   adjust_calls, job, writes, temp_files, otherVars>>

\* Lines 712-729: the final update; best_result["source_words"] raises
\* KeyError on a report that lacks the key.
Final ==
    /\ pc = "final"
    /\ IF FinalKeys \subseteq DOMAIN best_result
       THEN /\ Written([status |-> "completed", progress |-> 100,
                        downloadUrl |-> <<"epub_conversions/",
                                          JobId(file_path), ".epub">>,
                        qualityReport |->
                            [wordRatio |-> best_result.word_ratio,
                             sourceWords |-> best_result.source_words,
                             epubWords |-> best_result.epub_words,
                             chapters |-> best_result.chapters,
                             images |-> best_result.images,
                             passed |-> best_result.passed]])
            /\ pc' = "finally"
            /\ UNCHANGED fault
       ELSE /\ Raise("KeyError")
            /\ UNCHANGED <<job, writes>>
    /\ UNCHANGED <<file_path, source_doc, doc_analysis, ocr_map, loop_params,
                   iteration, loop_chapters, epub, nav_memo, reports, best_result,
                   adjust_calls, uploaded, temp_files, otherVars>>

\* Lines 732-739: the handler records the error.
Except ==
    /\ pc = "except"
    /\ Written([status |-> "error", error |-> fault])
    /\ pc' = "finally"
    /\ UNCHANGED <<file_path, source_doc, doc_analysis, ocr_map, loop_params,
                   iteration, loop_chapters, epub, nav_memo, reports, best_result,
                   adjust_calls, uploaded, temp_files, fault, otherVars>>

\* Lines 741-745: the temporary files are removed.
Finally ==
    /\ pc = "finally"
    /\ temp_files' = FALSE
    /\ pc' = "done"
    /\ UNCHANGED <<file_path, source_doc, doc_analysis, ocr_map, loop_params,
                   iteration, loop_chapters, epub, nav_memo, reports, best_result,
                   adjust_calls, job, writes, uploaded, fault, otherVars>>

Next ==
    \/ Receive \/ Download \/ Analyze \/ Ocr \/ Structure \/ Build
    \/ Validate_Attempt \/ Upload \/ Final \/ Except \/ Finally

Spec == Init /\ [][Next]_vars

(***************************************************************************)
(* Properties                                                              *)
(***************************************************************************)

Abs(x) == IF x < 0 THEN -x ELSE x

\* ---- structure_chapters (SpecStructure)

s_analysis == analyze_pdf(s_in.doc)
s_pages_of_chapters ==
    Flatten([c \in 1 .. Len(s_out.chapters) |-> s_out.chapters[c].pages])

\* C1: whichever tier produced them, the chapters' page lists, taken in
\* chapter order, are contiguous, disjoint and ascending and hold every
\* index of [0, total_pages) exactly once: put end to end they are
\* 0, 1, ..., total_pages - 1.
C1_ExactCover ==
    s_out # Idle => s_pages_of_chapters = Range(0, Len(s_in.doc.pages))

\* C6: the outline tier is used if and only if the outline holds at least
\* two entries of nesting level <= 2.
C6_OutlineIffTwoQualifying ==
    s_out # Idle =>
        (s_out.tier = 1 <=>
            Cardinality({i \in 1 .. Len(s_in.doc.toc) :
                            s_in.doc.toc[i].level <= 2}) >= 2)

\* C7: when the outline tier does not apply, the heading tier is used if
\* and only if the heading candidates lie on at least two distinct pages.
C7_HeadingsIffTwoPages ==
    s_out # Idle /\ s_out.tier # 1 =>
        (s_out.tier = 2 <=>
            Cardinality({s_out.detected_headings[i].page :
                            i \in 1 .. Len(s_out.detected_headings)}) >= 2)

\* C8: in tier 2 a block of a page that is not scanned is a heading
\* candidate if and only if it is large enough for the threshold, bold, of
\* at most 12 words and more than 2 characters, and passes one of the
\* chapter-likeness tests (keyword, decimal or Roman ordinal, 1.5 x body).
C8_CandidateIffChapterLike ==
    s_out # Idle /\ s_out.tier # 1 =>
        \A i \in 1 .. Len(s_analysis.pages) :
            ~s_analysis.pages[i].is_scanned =>
                \A j \in 1 .. Len(s_analysis.pages[i].blocks) :
                    LET block == s_analysis.pages[i].blocks[j]
                        body == s_analysis.body_font_size
                    IN  (\E k \in 1 .. Len(s_out.detected_headings) :
                            /\ s_out.detected_headings[k].page = i - 1
                            /\ s_out.detected_headings[k].title = block.text
                            /\ s_out.detected_headings[k].size = block.size)
                        <=>
                        /\ 100 * block.size >= body * s_in.params.heading_threshold
                        /\ block.bold
                        /\ WordCount(block.text) <= 12
                        /\ CharCount(block.text) > 2
                        /\ \/ MatchesKeyword(block.text)
                           \/ MatchesDecimal(block.text)
                           \/ MatchesRoman(block.text)
                           \/ 10 * block.size >= 15 * body

\* ---- validate_epub (SpecValidate)

v_scored == v_report # Idle /\ v_in.readable
v_num == Min(v_in.epub_words, v_in.source_words)

\* C3 as stated: the reported word_ratio is min(rendered / source, 1.0)
\* itself (1.0 or 0.5 without source words), passed is true exactly when it
\* is >= 0.90, a failed report is severe below 0.5 and moderate from 0.5 to
\* 0.9, and a passed report carries no failure_mode.
C3_ExactRatio ==
    v_scored =>
        /\ v_in.source_words > 0 =>
            v_report.word_ratio * v_in.source_words = 1000 * v_num
        /\ v_in.source_words = 0 =>
            v_report.word_ratio = IF v_in.epub_words = 0 THEN 1000 ELSE 500
        /\ v_report.passed <=> v_report.word_ratio >= 900
        /\ ~v_report.passed =>
            /\ "failure_mode" \in DOMAIN v_report
            /\ v_report.failure_mode =
                IF v_report.word_ratio < 500 THEN "severe_word_loss"
                ELSE "moderate_word_loss"
        /\ v_report.passed => "failure_mode" \notin DOMAIN v_report

\* C3 as amended: the reported word_ratio is min(rendered / source, 1.0)
\* rounded to three decimals (within half a thousandth of it, and within
\* [0, 1]), 1.0 or 0.5 without source words; passed is true exactly when
\* the ratio before rounding is >= 0.90; a failed report is severe when the
\* ratio before rounding is below 0.5 and moderate otherwise; a passed
\* report carries no failure_mode; 1000 / 850 gives 0.85, failed, moderate.
C3_RoundedRatio ==
    v_scored =>
        /\ v_in.source_words > 0 =>
            /\ v_report.word_ratio \in 0 .. 1000
            /\ 2 * Abs(v_report.word_ratio * v_in.source_words - 1000 * v_num)
                    <= v_in.source_words
        /\ v_in.source_words = 0 =>
            v_report.word_ratio = IF v_in.epub_words = 0 THEN 1000 ELSE 500
        /\ v_report.passed <=>
            IF v_in.source_words > 0
            THEN 10 * v_num >= 9 * v_in.source_words
            ELSE v_in.epub_words = 0
        /\ ~v_report.passed =>
            /\ "failure_mode" \in DOMAIN v_report
            /\ v_report.failure_mode =
                IF v_in.source_words > 0 /\ 2 * v_num < v_in.source_words
                THEN "severe_word_loss" ELSE "moderate_word_loss"
        /\ v_report.passed => "failure_mode" \notin DOMAIN v_report
        /\ v_in.source_words = 1000 /\ v_in.epub_words = 850 =>
            /\ v_report.word_ratio = 850
            /\ ~v_report.passed
            /\ v_report.failure_mode = "moderate_word_loss"

\* A report that failed although its rounded ratio reads 0.9.
C3_Witness ==
    /\ v_scored
    /\ v_in.source_words = 10000 /\ v_in.epub_words = 8996
    /\ v_report.word_ratio = 900
    /\ ~v_report.passed
    /\ v_report.failure_mode = "moderate_word_loss"

\* ---- adjust_params (SpecAdjust)

adj_called == new_params # Idle
adj_failure ==
    IF "failure_mode" \in DOMAIN validation_report
    THEN validation_report.failure_mode ELSE "absent"

\* C4: adjust_params leaves the Params it was given as they were and
\* returns, for severe_word_loss, h - 0.15 but at least 1.1, c + 10 but at
\* most 30, m - 50 but at least 25; for moderate_word_loss, h - 0.10 but at
\* least 1.1, c + 5 but at most 25, m - 25 but at least 50; for any other
\* or no failure_mode, the Params it was given; the defaults become
\* 1.2 / 20 / 75 after one moderate_word_loss.
C4_AdjustMapping ==
    adj_called =>
        LET h == adj_arg.heading_threshold
            c == adj_arg.chunk_size
            m == adj_arg.min_chapter_words
        IN  /\ current_params = adj_arg
            /\ adj_failure = "severe_word_loss" =>
                /\ new_params.heading_threshold = (IF h - 15 < 110 THEN 110 ELSE h - 15)
                /\ new_params.chunk_size = (IF c + 10 > 30 THEN 30 ELSE c + 10)
                /\ new_params.min_chapter_words = (IF m - 50 < 25 THEN 25 ELSE m - 50)
            /\ adj_failure = "moderate_word_loss" =>
                /\ new_params.heading_threshold = (IF h - 10 < 110 THEN 110 ELSE h - 10)
                /\ new_params.chunk_size = (IF c + 5 > 25 THEN 25 ELSE c + 5)
                /\ new_params.min_chapter_words = (IF m - 25 < 50 THEN 50 ELSE m - 25)
            /\ adj_failure \notin {"severe_word_loss", "moderate_word_loss"} =>
                new_params = adj_arg
            /\ adj_arg = DefaultParams /\ adj_failure = "moderate_word_loss" =>
                new_params = [heading_threshold |-> 120, chunk_size |-> 20,
                              min_chapter_words |-> 75]

\* The defaults after one moderate_word_loss.
C4_Witness ==
    /\ adj_called
    /\ adj_arg = DefaultParams
    /\ adj_failure = "moderate_word_loss"
    /\ new_params.heading_threshold = 120
    /\ new_params.chunk_size = 20
    /\ current_params = DefaultParams

InBounds(p) ==
    /\ p.heading_threshold >= 110
    /\ p.chunk_size >= 1 /\ p.chunk_size <= 30
    /\ p.min_chapter_words >= 25

\* C5: from the default Params, after any number of adjust_params calls
\* with any failure modes, heading_threshold >= 1.1, 1 <= chunk_size <= 30
\* and min_chapter_words >= 25.
C5_ParamsClamped ==
    from_default =>
        /\ InBounds(current_params)
        /\ adj_called => InBounds(new_params)

\* Two severe rounds from the defaults: every clamp has acted.
C5_Witness ==
    /\ from_default
    /\ adjusts = 2
    /\ ~adj_called
    /\ current_params = [heading_threshold |-> 110, chunk_size |-> 30,
                         min_chapter_words |-> 25]

\* ---- process_epub_conversion (Spec)

Failed(report) == ~report.passed
FailedReports == {i \in 1 .. Len(reports) : Failed(reports[i])}
LoopPassed == reports # <<>> /\ reports[Len(reports)].passed
LoopExhausted == Len(reports) = 3 /\ FailedReports = 1 .. 3

\* C2: the loop makes at most 3 attempts and at most 2 calls of
\* adjust_params, one after each of the first two failed attempts; an
\* attempt that passed is the last one; and control leaves the loop, for
\* the upload, either Passed (the last report passed) or Exhausted (three
\* failed attempts).
C2_LoopBounded ==
    /\ Len(reports) <= 3
    /\ adjust_calls <= 2
    /\ adjust_calls = Min(Cardinality(FailedReports), 2)
    /\ \A i \in 1 .. Len(reports) - 1 : Failed(reports[i])
    /\ (pc \in {"upload", "final"} \/ uploaded) => (LoopPassed \/ LoopExhausted)

\* The loop left Exhausted: three failed attempts, two adjustments.
C2_Witness ==
    /\ pc = "upload"
    /\ LoopExhausted
    /\ adjust_calls = 2

IsReadbackFailure(report) == "error" \in DOMAIN report

\* C9: a report of an EPUB that could not be read back is failed and has
\* no failure_mode; the Params are not changed by it; and an invocation
\* whose 3 attempts all end in readback failure, and whose upload goes
\* through, ends with status completed and a quality summary.
C9_ReadbackBestEffort ==
    /\ \A i \in 1 .. Len(reports) :
        IsReadbackFailure(reports[i]) =>
            Failed(reports[i]) /\ "failure_mode" \notin DOMAIN reports[i]
    /\ (reports # <<>> /\ \A i \in 1 .. Len(reports) : IsReadbackFailure(reports[i]))
            => loop_params = DefaultParams
    /\ ( /\ pc = "done"
         /\ Len(reports) = 3
         /\ \A i \in 1 .. 3 : IsReadbackFailure(reports[i])
         /\ fault # "upload failed" )
            => /\ job.status = "completed"
               /\ "qualityReport" \in DOMAIN job

PathPassesFilter ==
    file_path[1] = "pdf_uploads/" /\ file_path[Len(file_path)] = ".pdf"

\* The record of C10, as it is at every moment: for an accepted object the
\* first write creates it as processing; when the invocation has ended it
\* is either completed, with a download locator and the six-field quality
\* summary and no error, or error, with an error message and no locator;
\* nothing is written after completed; and for an object that fails the
\* path filter nothing is written at all.
StatusRecordOk ==
    /\ (PathPassesFilter /\ pc # "start") =>
            writes[1] = [status |-> "processing", progress |-> 5]
    /\ (PathPassesFilter /\ pc = "done") =>
            \/ /\ job.status = "completed"
               /\ {"downloadUrl", "qualityReport"} \subseteq DOMAIN job
               /\ DOMAIN job.qualityReport =
                    {"wordRatio", "sourceWords", "epubWords", "chapters",
                     "images", "passed"}
               /\ "error" \notin DOMAIN job
            \/ /\ job.status = "error"
               /\ "error" \in DOMAIN job
               /\ job.error # ""
               /\ "downloadUrl" \notin DOMAIN job
    /\ \A i \in 1 .. Len(writes) :
            ("status" \in DOMAIN writes[i] /\ writes[i].status = "completed")
                => i = Len(writes)
    /\ ~PathPassesFilter => writes = <<>> /\ DOMAIN job = {}

\* An upper bound on the steps the invocation still has to take, read off
\* the handler's control flow: the stages before the loop, three stages for
\* each attempt that may still be made, then upload, final update, handler
\* and cleanup.
StepsLeft ==
    CASE pc \in {"done", "ignored"} -> 0
      [] pc = "finally" -> 1
      [] pc = "except" -> 2
      [] pc = "final" -> 3
      [] pc = "upload" -> 4
      [] pc = "validate" -> 5 + 3 * (MAX_ITERATIONS - iteration)
      [] pc = "build" -> 6 + 3 * (MAX_ITERATIONS - iteration)
      [] pc = "structure" -> 7 + 3 * (MAX_ITERATIONS - iteration)
      [] pc = "ocr" -> 8 + 3 * MAX_ITERATIONS
      [] pc = "analyze" -> 9 + 3 * MAX_ITERATIONS
      [] pc = "download" -> 10 + 3 * MAX_ITERATIONS
      [] pc = "start" -> 11 + 3 * MAX_ITERATIONS

\* C10: the status record is at every moment as StatusRecordOk says: created
\* as processing for an accepted object, final as completed (locator,
\* quality summary) or error (message), untouched after completed, and
\* never written for an object the filter rejects; and the invocation comes
\* to its end, because every step it takes brings the end strictly nearer.
C10_StatusRecord ==
    /\ []StatusRecordOk
    /\ [][StepsLeft' < StepsLeft /\ StepsLeft' >= 0]_vars

\* An accepted object whose invocation ended completed.
C10_Witness ==
    /\ PathPassesFilter
    /\ pc = "done"
    /\ job.status = "completed"
    /\ job.progress = 100


\* The positions of writes that carry a progress value.
ProgressWrites == {i \in 1 .. Len(writes) : "progress" \in DOMAIN writes[i]}

\* C11: the progress values written during one invocation never decrease
\* from one write to a later one, every one of them lies in [0, 100], and
\* 100 is written only in the write that sets status completed.
C11_ProgressMonotone ==
    /\ \A i \in ProgressWrites :
        /\ writes[i].progress \in 0 .. 100
        /\ writes[i].progress = 100 =>
                /\ "status" \in DOMAIN writes[i]
                /\ writes[i].status = "completed"
    /\ \A i, j \in ProgressWrites :
        i < j => writes[i].progress <= writes[j].progress
    /\ ("progress" \in DOMAIN job /\ job.progress = 100) =>
            job.status = "completed"

\* An invocation with the OCR stage and three attempts that ended completed:
\* every progress checkpoint has been written.
C11_Witness ==
    /\ pc = "done"
    /\ job.status = "completed"
    /\ Len(reports) = 3
    /\ {writes[i].progress : i \in ProgressWrites} =
            {5, 10, 20, 25, 35, 45, 50, 60, 65, 75, 80, 100}

\* C12: an invocation that has ended with status error has uploaded no
\* EPUB to the output location.
C12_NoArtifactOnError ==
    (pc = "done" /\ "status" \in DOMAIN job /\ job.status = "error")
        => ~uploaded

\* ocr_results without the pages whose recognized text is empty.
s_recognized ==
    [k \in {n \in DOMAIN s_in.ocr_results : s_in.ocr_results[n] # <<>>} |->
        s_in.ocr_results[k]]

\* C13: a scanned page without non-empty OCR text is rendered from its own
\* blocks, and a page's blocks are left out only where recognized text is
\* rendered in their place: every chapter's markup and word count are those
\* of its pages rendered with the empty OCR entries counting as absent.
C13_EmptyOcrRendersBlocks ==
    s_out # Idle =>
        \A c \in 1 .. Len(s_out.chapters) :
            LET ch == s_out.chapters[c]
                expected ==
                    Flatten([i \in 1 .. Len(ch.pages) |->
                        PageMarkup(s_analysis.pages[ch.pages[i] + 1],
                                   s_recognized, s_analysis.body_font_size)])
            IN  /\ ch.content_html = expected
                /\ ch.word_count =
                        SumSeq([i \in 1 .. Len(expected) |->
                                    WordCount(expected[i].text)])

\* ---- the outline tier over the attempts of one invocation (Spec)

\* The attempts whose EPUB was read back.
ScoredReports == {i \in 1 .. Len(reports) : ~IsReadbackFailure(reports[i])}

\* The loop has been left by its own exit, not by a fault inside it.
LoopLeft == pc \in {"upload", "final"} \/ uploaded \/ fault = "upload failed"

=============================================================================
